---- MODULE Spec2Model ----
(***************************************************************************)
(* OrderFlow: the order repository (in-memory map behind a sync.RWMutex,   *)
(* and the PostgreSQL-backed variant), and the Redis session gate of the   *)
(* HTTP API.                                                               *)
(*                                                                         *)
(* Repository calls are made by concurrent workers (one goroutine per      *)
(* request).  A worker calls an operation (pc "wait"), the in-memory       *)
(* variant takes the lock (pc "cs"), the body runs (pc "ret": the result   *)
(* is computed, the deferred unlock is still pending) and the call returns *)
(* (pc "idle", the lock released).  The PostgreSQL variant issues one      *)
(* statement per call, which the database applies atomically (pc "ret"),   *)
(* and returns.  The process is wired with one variant: the in-memory      *)
(* repository, the PostgreSQL repository, or the earlier mutex-guarded     *)
(* Store.                                                                  *)
(***************************************************************************)
EXTENDS Integers, Sequences, FiniteSets, TLC

\* ------------------------------------------------------------------ bounds
MaxQuantity == 2    \* the largest quantity a caller submits
MaxTime == 2        \* the last instant of the clock

\* two workers: enough for every pair of overlapping calls
Workers == {1, 2}
IDs == {"1", "2"}
Items == <<"Widget", "Gadget">>
Quantities == 1..MaxQuantity

\* ------------------------------------------------------------- order.Order
\* the orders the callers submit: per id, one order for each quantity, the items
\* alternating, so that two different orders of an id differ in item or quantity
Order == {[ID |-> id, Item |-> Items[((q - 1) % 2) + 1], Quantity |-> q] : id \in IDs, q \in Quantities}
ArgOf(id) == [ID |-> id, Item |-> "", Quantity |-> 0]
ZeroOrder == [ID |-> "", Item |-> "", Quantity |-> 0]

\* errors a repository call can return
ErrNil == "nil"
ErrNotFound == "order not found"
ErrUnique == "pq: duplicate key value violates unique constraint"
ErrDB == "driver: bad connection"
ErrCtx == "context canceled"

Ops == {"Create", "Get", "List", "Update", "Delete"}
WriteOps == {"Create", "Update", "Delete"}
ReadOps == {"Get", "List"}

VARIABLES
    variant,    \* which order.Repository the process was wired with
    orders,     \* the orders map of the in-memory variant: map[string]order.Order
    mu,         \* its lock: [writer |-> holder or 0, readers |-> set of workers]
    table,      \* the rows of the PostgreSQL table orders (id is its primary key)
    pc,         \* per worker: "idle", "wait", "cs", "ret"
    call,       \* per worker: the call in progress
    ret,        \* per worker: the value the call in progress returns
    lastWrite,  \* history: per id, the latest write call that returned nil
    now,        \* the clock: what time.Now() returns, and the Redis server's time
    redis,      \* the Redis keys: key -> [val |-> value, exp |-> expiry instant]
    resp,       \* the HTTP request served last, and its response
    logins,     \* history: the [sid, user, at] of every login answered 200
    resolved,   \* history: the cookie values the gate has resolved to a user
    concurrent  \* history: two Create calls of different ids were in progress at once

repoVars == <<variant, orders, mu, table, pc, call, ret, lastWrite>>
gateVars == <<now, redis, resp, logins, resolved>>
vars == <<variant, orders, mu, table, pc, call, ret, lastWrite, now, redis, resp, logins, resolved,
          concurrent>>

\* ----------------------------------------------------------------- helpers
NoCall == [op |-> "none", o |-> ZeroOrder]
NoRet == [err |-> ErrNil, o |-> ZeroOrder, isNil |-> TRUE, list |-> <<>>]
NoWrite == [kind |-> "none", o |-> ZeroOrder]

ErrRet(e) == [err |-> e, o |-> ZeroOrder, isNil |-> TRUE, list |-> <<>>]
OkRet == ErrRet(ErrNil)
OrderRet(o) == [err |-> ErrNil, o |-> o, isNil |-> TRUE, list |-> <<>>]

\* every order in which the elements of a finite set can be enumerated
Perms(S) == {s \in [1..Cardinality(S) -> S] : \A i, j \in 1..Cardinality(S) : s[i] = s[j] => i = j}

\* range over a Go map: the values, in an unspecified order
MapValues(m) == {[i \in 1..Cardinality(DOMAIN m) |-> m[p[i]]] : p \in Perms(DOMAIN m)}

\* mutant: the assignment guarded by "if _, ok := m[k]; !ok"
MapSetIfAbsent(m, k, v) == [x \in DOMAIN m \cup {k} |-> IF x \in DOMAIN m THEN m[x] ELSE v]

\* mutant: the map replaced by a fresh one holding the new entry only
MapSetFresh(m, k, v) == [x \in {k} |-> v]

\* mutant: delete with a key the map does not hold
MapDeleteOtherKey(m, k) == m

\* map assignment m[k] = v and delete(m, k)
MapSet(m, k, v) == [x \in DOMAIN m \cup {k} |-> IF x = k THEN v ELSE m[x]]
MapDelete(m, k) == [x \in DOMAIN m \ {k} |-> m[x]]

\* the rows of the table in an unspecified order (SELECT without ORDER BY)
Rows(t) == {s \in [1..Cardinality(t) -> t] : \A i, j \in 1..Cardinality(t) : s[i] = s[j] => i = j}
HasRow(t, id) == \E r \in t : r.ID = id
RowOf(t, id) == CHOOSE r \in t : r.ID = id

\* the history kept for the claims: the latest write call on each id that returned nil
Record(kind, o, err) ==
    lastWrite' = IF err = ErrNil
                 THEN [lastWrite EXCEPT ![o.ID] = [kind |-> kind, o |-> o]]
                 ELSE lastWrite

Finish(w, r) ==
    /\ ret' = [ret EXCEPT ![w] = r]
    /\ pc' = [pc EXCEPT ![w] = "ret"]

\* ------------------------------------------------------------ the session gate
\* time.Hour, the session TTL, in instants of the clock
Hour == 2

Usernames == {"", "alice", "bob"}

Digit == <<"0", "1", "2", "3", "4", "5", "6", "7", "8", "9">>

\* strconv.FormatInt(n, 10) for n >= 0
RECURSIVE FormatInt(_)
FormatInt(n) == IF n < 10 THEN Digit[n + 1] ELSE FormatInt(n \div 10) \o Digit[(n % 10) + 1]

\* mutant: one key for every session
SessionKeyShared(sid) == "session:"

\* the Redis key of a session id
SessionKey(sid) == "session:" \o sid

\* the session_id cookie values a client sends: every id the clock can produce,
\* the empty value, and values no login produces
CookieValues == {FormatInt(t) : t \in 0..MaxTime} \cup {"", "guess"}
NoCookie == [present |-> FALSE, value |-> ""]
Cookies == {NoCookie} \cup {[present |-> TRUE, value |-> v] : v \in CookieValues}

\* a request and what its handler did: at is the instant it was served, err the
\* error of the handler's Redis call, forwarded whether next.ServeHTTP was called,
\* user the value put in the context
NoResp == [kind |-> "none", at |-> 0, username |-> "", cookie |-> NoCookie, err |-> "nil",
           status |-> 0, setCookie |-> NoCookie, forwarded |-> FALSE, user |-> ""]

RedisNil == "redis: nil"
RedisDown == "dial tcp: connection refused"

\* redisClient.Set(ctx, key, val, ttl): the key expires ttl after the server stores it
RedisSet(db, key, val, ttl) ==
    [k \in DOMAIN db \cup {key} |-> IF k = key THEN [val |-> val, exp |-> now + ttl] ELSE db[k]]

\* redisClient.Get(ctx, key).Result(): the value, or redis.Nil for a key that is
\* absent or expired
RedisGet(db, key) ==
    IF key \in DOMAIN db /\ now < db[key].exp
    THEN [err |-> "nil", val |-> db[key].val]
    ELSE [err |-> RedisNil, val |-> ""]

\* -------------------------------------------------------------------- Init
Init ==
    /\ variant \in {"memory", "postgres", "store"}
    /\ orders = [x \in {} |-> ZeroOrder]
    /\ mu = [writer |-> 0, readers |-> {}]
    /\ table = {}
    /\ pc = [w \in Workers |-> "idle"]
    /\ call = [w \in Workers |-> NoCall]
    /\ ret = [w \in Workers |-> NoRet]
    /\ lastWrite = [id \in IDs |-> NoWrite]
    /\ now = 0
    /\ redis = [k \in {} |-> [val |-> "", exp |-> 0]]
    /\ resp = NoResp
    /\ logins = {}
    /\ resolved = {}
    /\ concurrent = FALSE

\* ------------------------------------------------------------ the callers
\* the arguments an operation takes: an order, an id, or nothing
Args(op) ==
    CASE op \in {"Create", "Update"} -> Order
      [] op \in {"Get", "Delete"} -> {ArgOf(id) : id \in IDs}
      [] OTHER -> {ZeroOrder}

\* the operations the wired variant offers (the Store has Create and List only)
OpsOf(v) == IF v = "store" THEN {"Create", "List"} ELSE Ops

\* a worker calls op on the repository
Invoke(w, op, o) ==
    /\ pc[w] = "idle"
    /\ variant # "postgres"
    /\ op \in OpsOf(variant) /\ o \in Args(op)
    /\ pc' = [pc EXCEPT ![w] = "wait"]
    /\ call' = [call EXCEPT ![w] = [op |-> op, o |-> o]]
    /\ UNCHANGED <<variant, orders, mu, table, ret, lastWrite, gateVars>>

Call(w, op, o) == Invoke(w, op, o) /\ UNCHANGED concurrent

\* ------------------------------------------------------- memory.Repository
\* mutant: Lock that waits for the writer only, not for the readers
MemLockIgnoringReaders(w) ==
    /\ variant = "memory" /\ pc[w] = "wait" /\ call[w].op \in WriteOps
    /\ mu.writer = 0
    /\ mu' = [mu EXCEPT !.writer = w]
    /\ pc' = [pc EXCEPT ![w] = "cs"]
    /\ UNCHANGED <<variant, orders, table, call, ret, lastWrite, gateVars, concurrent>>

\* r.mu.Lock()
MemLock(w) ==
    /\ variant = "memory" /\ pc[w] = "wait" /\ call[w].op \in WriteOps
    /\ mu.writer = 0 /\ mu.readers = {}
    /\ mu' = [mu EXCEPT !.writer = w]
    /\ pc' = [pc EXCEPT ![w] = "cs"]
    /\ UNCHANGED <<variant, orders, table, call, ret, lastWrite, gateVars, concurrent>>

\* mutant: RLock that does not wait for the writer
MemRLockIgnoringWriter(w) ==
    /\ variant = "memory" /\ pc[w] = "wait" /\ call[w].op \in ReadOps
    /\ mu' = [mu EXCEPT !.readers = @ \cup {w}]
    /\ pc' = [pc EXCEPT ![w] = "cs"]
    /\ UNCHANGED <<variant, orders, table, call, ret, lastWrite, gateVars, concurrent>>

\* r.mu.RLock()
MemRLock(w) ==
    /\ variant = "memory" /\ pc[w] = "wait" /\ call[w].op \in ReadOps
    /\ mu.writer = 0
    /\ mu' = [mu EXCEPT !.readers = @ \cup {w}]
    /\ pc' = [pc EXCEPT ![w] = "cs"]
    /\ UNCHANGED <<variant, orders, table, call, ret, lastWrite, gateVars, concurrent>>

\* mutant: the order stored under its item, r.orders[o.Item] = o
MemCreateByItem(w) ==
    /\ variant = "memory" /\ pc[w] = "cs" /\ call[w].op = "Create"
    /\ orders' = MapSet(orders, call[w].o.Item, call[w].o)
    /\ Finish(w, OkRet)
    /\ Record("create", call[w].o, ErrNil)
    /\ UNCHANGED <<variant, mu, table, call, gateVars, concurrent>>

MemCreate(w) ==
    /\ variant = "memory" /\ pc[w] = "cs" /\ call[w].op = "Create"
    /\ orders' = MapSet(orders, call[w].o.ID, call[w].o)
    /\ Finish(w, OkRet)
    /\ Record("create", call[w].o, ErrNil)
    /\ UNCHANGED <<variant, mu, table, call, gateVars, concurrent>>

\* o, ok := r.orders[id], and what Get returns for it
MemLookup(m, id) == IF id \notin DOMAIN m THEN ErrRet(ErrNotFound) ELSE OrderRet(m[id])

MemGet(w) ==
    /\ variant = "memory" /\ pc[w] = "cs" /\ call[w].op = "Get"
    /\ Finish(w, MemLookup(orders, call[w].o.ID))
    /\ UNCHANGED <<variant, orders, mu, table, call, lastWrite, gateVars, concurrent>>

\* mutant: out := make([]order.Order, len(r.orders)), so that append follows
\* len(r.orders) zero orders
MemListZeroPrefix(w) ==
    /\ variant = "memory" /\ pc[w] = "cs" /\ call[w].op = "List"
    /\ \E out \in MapValues(orders) :
          Finish(w, [err |-> ErrNil, o |-> ZeroOrder, isNil |-> FALSE,
                     list |-> [i \in 1..Len(out) |-> ZeroOrder] \o out])
    /\ UNCHANGED <<variant, orders, mu, table, call, lastWrite, gateVars, concurrent>>

MemList(w) ==
    /\ variant = "memory" /\ pc[w] = "cs" /\ call[w].op = "List"
    /\ \E out \in MapValues(orders) :
          Finish(w, [err |-> ErrNil, o |-> ZeroOrder, isNil |-> FALSE, list |-> out])
    /\ UNCHANGED <<variant, orders, mu, table, call, lastWrite, gateVars, concurrent>>

\* mutant: Update that merges: it takes the item from o and keeps the stored quantity
MemUpdateKeepQuantity(w) ==
    /\ variant = "memory" /\ pc[w] = "cs" /\ call[w].op = "Update"
    /\ IF call[w].o.ID \notin DOMAIN orders
       THEN /\ Finish(w, ErrRet(ErrNotFound))
            /\ UNCHANGED <<orders, lastWrite>>
       ELSE /\ orders' = MapSet(orders, call[w].o.ID,
                                [orders[call[w].o.ID] EXCEPT !.Item = call[w].o.Item])
            /\ Finish(w, OkRet)
            /\ Record("update", call[w].o, ErrNil)
    /\ UNCHANGED <<variant, mu, table, call, gateVars, concurrent>>

\* mutant: Update without the existence check
MemUpdateUpsert(w) ==
    /\ variant = "memory" /\ pc[w] = "cs" /\ call[w].op = "Update"
    /\ orders' = MapSet(orders, call[w].o.ID, call[w].o)
    /\ Finish(w, OkRet)
    /\ Record("update", call[w].o, ErrNil)
    /\ UNCHANGED <<variant, mu, table, call, gateVars, concurrent>>

MemUpdate(w) ==
    /\ variant = "memory" /\ pc[w] = "cs" /\ call[w].op = "Update"
    /\ IF call[w].o.ID \notin DOMAIN orders
       THEN /\ Finish(w, ErrRet(ErrNotFound))
            /\ UNCHANGED <<orders, lastWrite>>
       ELSE /\ orders' = MapSet(orders, call[w].o.ID, call[w].o)
            /\ Finish(w, OkRet)
            /\ Record("update", call[w].o, ErrNil)
    /\ UNCHANGED <<variant, mu, table, call, gateVars, concurrent>>

MemDelete(w) ==
    /\ variant = "memory" /\ pc[w] = "cs" /\ call[w].op = "Delete"
    /\ IF call[w].o.ID \notin DOMAIN orders
       THEN /\ Finish(w, ErrRet(ErrNotFound))
            /\ UNCHANGED <<orders, lastWrite>>
       ELSE /\ orders' = MapDelete(orders, call[w].o.ID)
            /\ Finish(w, OkRet)
            /\ Record("delete", call[w].o, ErrNil)
    /\ UNCHANGED <<variant, mu, table, call, gateVars, concurrent>>

\* mutant: the unlock not deferred but placed at the end of the body, so that the
\* early return of the ErrNotFound paths leaves the lock held
MemReturnUnlockAtEnd(w) ==
    /\ variant = "memory" /\ pc[w] = "ret"
    /\ mu' = IF ret[w].err = ErrNotFound THEN mu
             ELSE IF call[w].op \in WriteOps THEN [mu EXCEPT !.writer = 0]
             ELSE [mu EXCEPT !.readers = @ \ {w}]
    /\ pc' = [pc EXCEPT ![w] = "idle"]
    /\ call' = [call EXCEPT ![w] = NoCall]
    /\ ret' = [ret EXCEPT ![w] = NoRet]
    /\ UNCHANGED <<variant, orders, table, lastWrite, gateVars, concurrent>>

\* the deferred r.mu.Unlock() / r.mu.RUnlock(), and the return
MemReturn(w) ==
    /\ variant = "memory" /\ pc[w] = "ret"
    /\ mu' = IF call[w].op \in WriteOps
             THEN [mu EXCEPT !.writer = 0]
             ELSE [mu EXCEPT !.readers = @ \ {w}]
    /\ pc' = [pc EXCEPT ![w] = "idle"]
    /\ call' = [call EXCEPT ![w] = NoCall]
    /\ ret' = [ret EXCEPT ![w] = NoRet]
    /\ UNCHANGED <<variant, orders, table, lastWrite, gateVars, concurrent>>

\* ------------------------------------------------------------- order.Store
\* s.mu.Lock(): a sync.Mutex, exclusive for Create and for List
StoreLock(w) ==
    /\ variant = "store" /\ pc[w] = "wait"
    /\ mu.writer = 0
    /\ mu' = [mu EXCEPT !.writer = w]
    /\ pc' = [pc EXCEPT ![w] = "cs"]
    /\ UNCHANGED <<variant, orders, table, call, ret, lastWrite, gateVars, concurrent>>

StoreCreate(w) ==
    /\ variant = "store" /\ pc[w] = "cs" /\ call[w].op = "Create"
    /\ orders' = MapSet(orders, call[w].o.ID, call[w].o)
    /\ Finish(w, OkRet)
    /\ Record("create", call[w].o, ErrNil)
    /\ UNCHANGED <<variant, mu, table, call, gateVars, concurrent>>

StoreList(w) ==
    /\ variant = "store" /\ pc[w] = "cs" /\ call[w].op = "List"
    /\ \E out \in MapValues(orders) :
          Finish(w, [err |-> ErrNil, o |-> ZeroOrder, isNil |-> FALSE, list |-> out])
    /\ UNCHANGED <<variant, orders, mu, table, call, lastWrite, gateVars, concurrent>>

\* the deferred s.mu.Unlock(), and the return
StoreReturn(w) ==
    /\ variant = "store" /\ pc[w] = "ret"
    /\ mu' = [mu EXCEPT !.writer = 0]
    /\ pc' = [pc EXCEPT ![w] = "idle"]
    /\ call' = [call EXCEPT ![w] = NoCall]
    /\ ret' = [ret EXCEPT ![w] = NoRet]
    /\ UNCHANGED <<variant, orders, table, lastWrite, gateVars, concurrent>>

\* ----------------------------------------------------- postgres.Repository
\* What the backing store does to a statement: it runs ("none"), the connection
\* fails ("conn"), the caller's context is done ("ctx"), scanning a row fails
\* ("scan"), the row iteration breaks off ("rows"), or the statement runs and the
\* driver cannot report the affected-row count ("affected").  A failed statement
\* changes nothing.
ExecFaults == {"none", "conn", "ctx"}
\* github.com/lib/pq, the driver main.go imports, always reports the count
PqFaults == {"none", "conn", "ctx", "scan", "rows"}
\* database/sql allows a driver whose RowsAffected fails
AnyDriverFaults == PqFaults \cup {"affected"}
ErrOf(fault) == IF fault = "ctx" THEN ErrCtx ELSE ErrDB

\* res.RowsAffected() with its error dropped: n is 0 when the count is unavailable
RowsAffected(matched, fault) == IF fault = "affected" THEN 0 ELSE matched

\* INSERT INTO orders (id,item,quantity) VALUES ($1,$2,$3)
PgCreate(w, o, fault) ==
    /\ variant = "postgres" /\ pc[w] = "idle" /\ o \in Args("Create")
    /\ call' = [call EXCEPT ![w] = [op |-> "Create", o |-> o]]
    /\ fault \in ExecFaults
    /\ LET err == IF fault # "none" THEN ErrOf(fault)
                  ELSE IF HasRow(table, o.ID) THEN ErrUnique
                  ELSE ErrNil
       IN  /\ table' = IF err = ErrNil THEN table \cup {o} ELSE table
           /\ Finish(w, ErrRet(err))
           /\ Record("create", o, err)
    /\ UNCHANGED <<variant, orders, mu, gateVars, concurrent>>

\* QueryRowContext(...).Scan(&o.ID, &o.Item, &o.Quantity): sql.ErrNoRows becomes
\* ErrNotFound, any other error is returned as it is
PgQueryRow(t, id, fault) ==
    IF fault # "none" THEN ErrRet(ErrOf(fault))
    ELSE IF ~HasRow(t, id) THEN ErrRet(ErrNotFound)
    ELSE OrderRet(RowOf(t, id))

\* SELECT id,item,quantity FROM orders WHERE id=$1, scanned into o
PgGet(w, o, fault) ==
    /\ variant = "postgres" /\ pc[w] = "idle" /\ o \in Args("Get")
    /\ call' = [call EXCEPT ![w] = [op |-> "Get", o |-> o]]
    /\ fault \in ExecFaults \cup {"scan"}
    /\ fault = "scan" => HasRow(table, o.ID)
    /\ Finish(w, PgQueryRow(table, o.ID, fault))
    /\ UNCHANGED <<variant, orders, mu, table, lastWrite, gateVars, concurrent>>

\* SELECT id,item,quantity FROM orders, appended row by row to a nil slice
PgList(w, o, fault) ==
    /\ variant = "postgres" /\ pc[w] = "idle" /\ o \in Args("List")
    /\ call' = [call EXCEPT ![w] = [op |-> "List", o |-> o]]
    /\ fault \in ExecFaults \cup {"scan", "rows"}
    /\ fault = "scan" => table # {}
    /\ \E rows \in Rows(table), n \in 0..Cardinality(table) :
          /\ fault # "rows" => n = Cardinality(table)
          /\ fault = "rows" => n < Cardinality(table)
          /\ IF fault \in {"conn", "ctx", "scan"}
             THEN Finish(w, ErrRet(ErrOf(fault)))
             ELSE Finish(w, [err |-> IF fault = "rows" THEN ErrDB ELSE ErrNil,
                             o |-> ZeroOrder, isNil |-> n = 0, list |-> SubSeq(rows, 1, n)])
    /\ UNCHANGED <<variant, orders, mu, table, lastWrite, gateVars, concurrent>>

\* mutant: UPDATE orders SET item=$2, quantity=$3, the WHERE clause forgotten
PgUpdateNoWhere(w, o, fault) ==
    /\ variant = "postgres" /\ pc[w] = "idle" /\ o \in Args("Update")
    /\ call' = [call EXCEPT ![w] = [op |-> "Update", o |-> o]]
    /\ fault \in ExecFaults \cup {"affected"}
    /\ IF fault \in {"conn", "ctx"}
       THEN /\ Finish(w, ErrRet(ErrOf(fault)))
            /\ UNCHANGED <<table, lastWrite>>
       ELSE LET matched == Cardinality(table)
                err == IF RowsAffected(matched, fault) = 0 THEN ErrNotFound ELSE ErrNil
            IN  /\ table' = {[r EXCEPT !.Item = o.Item, !.Quantity = o.Quantity] : r \in table}
                /\ Finish(w, ErrRet(err))
                /\ Record("update", o, err)
    /\ UNCHANGED <<variant, orders, mu, gateVars, concurrent>>

\* mutant: INSERT ... ON CONFLICT (id) DO UPDATE in place of the UPDATE
PgUpdateUpsert(w, o, fault) ==
    /\ variant = "postgres" /\ pc[w] = "idle" /\ o \in Args("Update")
    /\ call' = [call EXCEPT ![w] = [op |-> "Update", o |-> o]]
    /\ fault \in ExecFaults \cup {"affected"}
    /\ IF fault \in {"conn", "ctx"}
       THEN /\ Finish(w, ErrRet(ErrOf(fault)))
            /\ UNCHANGED <<table, lastWrite>>
       ELSE LET err == IF RowsAffected(1, fault) = 0 THEN ErrNotFound ELSE ErrNil
            IN  /\ table' = {r \in table : r.ID # o.ID} \cup {o}
                /\ Finish(w, ErrRet(err))
                /\ Record("update", o, err)
    /\ UNCHANGED <<variant, orders, mu, gateVars, concurrent>>

\* UPDATE orders SET item=$2, quantity=$3 WHERE id=$1
PgUpdate(w, o, fault) ==
    /\ variant = "postgres" /\ pc[w] = "idle" /\ o \in Args("Update")
    /\ call' = [call EXCEPT ![w] = [op |-> "Update", o |-> o]]
    /\ fault \in ExecFaults \cup {"affected"}
    /\ IF fault \in {"conn", "ctx"}
       THEN /\ Finish(w, ErrRet(ErrOf(fault)))
            /\ UNCHANGED <<table, lastWrite>>
       ELSE LET matched == Cardinality({r \in table : r.ID = o.ID})
                err == IF RowsAffected(matched, fault) = 0 THEN ErrNotFound ELSE ErrNil
            IN  /\ table' = {IF r.ID = o.ID THEN o ELSE r : r \in table}
                /\ Finish(w, ErrRet(err))
                /\ Record("update", o, err)
    /\ UNCHANGED <<variant, orders, mu, gateVars, concurrent>>

\* DELETE FROM orders WHERE id=$1
PgDelete(w, o, fault) ==
    /\ variant = "postgres" /\ pc[w] = "idle" /\ o \in Args("Delete")
    /\ call' = [call EXCEPT ![w] = [op |-> "Delete", o |-> o]]
    /\ fault \in ExecFaults \cup {"affected"}
    /\ IF fault \in {"conn", "ctx"}
       THEN /\ Finish(w, ErrRet(ErrOf(fault)))
            /\ UNCHANGED <<table, lastWrite>>
       ELSE LET matched == Cardinality({r \in table : r.ID = o.ID})
                err == IF RowsAffected(matched, fault) = 0 THEN ErrNotFound ELSE ErrNil
            IN  /\ table' = {r \in table : r.ID # o.ID}
                /\ Finish(w, ErrRet(err))
                /\ Record("delete", o, err)
    /\ UNCHANGED <<variant, orders, mu, gateVars, concurrent>>

\* the call returns to its caller
PgReturn(w) ==
    /\ variant = "postgres" /\ pc[w] = "ret"
    /\ pc' = [pc EXCEPT ![w] = "idle"]
    /\ call' = [call EXCEPT ![w] = NoCall]
    /\ ret' = [ret EXCEPT ![w] = NoRet]
    /\ UNCHANGED <<variant, orders, mu, table, lastWrite, gateVars, concurrent>>

\* ------------------------------------------------------------- cmd/api/main
\* the clock advances
Tick ==
    /\ now < MaxTime
    /\ now' = now + 1
    /\ UNCHANGED <<repoVars, concurrent, redis, resp, logins, resolved>>

\* Redis removes a key whose time to live has elapsed
RedisExpire(key) ==
    /\ key \in DOMAIN redis /\ redis[key].exp <= now
    /\ redis' = [k \in DOMAIN redis \ {key} |-> redis[k]]
    /\ UNCHANGED <<repoVars, concurrent, now, resp, logins, resolved>>

\* POST /login: decodeOK is whether the body decodes, fault what Redis does to SET
loginHandler(decodeOK, username, fault) ==
    /\ fault \in {"none", "conn"}
    /\ LET sid == FormatInt(now)
           status == IF ~decodeOK \/ username = "" THEN 400
                     ELSE IF fault # "none" THEN 500
                     ELSE 200
       IN  /\ redis' = IF status = 200 THEN RedisSet(redis, SessionKey(sid), username, Hour) ELSE redis
           /\ resp' = [kind |-> "login", at |-> now, username |-> username, cookie |-> NoCookie,
                       err |-> IF status = 500 THEN RedisDown ELSE "nil", status |-> status,
                       setCookie |-> IF status = 200 THEN [present |-> TRUE, value |-> sid] ELSE NoCookie,
                       forwarded |-> FALSE, user |-> ""]
           /\ logins' = IF status = 200 THEN logins \cup {[sid |-> sid, user |-> username, at |-> now]}
                        ELSE logins
    /\ UNCHANGED <<repoVars, concurrent, now, resolved>>

\* mutant: only the cookie is checked, the error of the Redis call is dropped
authMiddlewareCookieOnly(cookie, fault) ==
    /\ fault \in {"none", "conn"}
    /\ ~cookie.present => fault = "none"
    /\ LET got == IF ~cookie.present THEN [err |-> "nil", val |-> ""]
                  ELSE IF fault = "none" THEN RedisGet(redis, SessionKey(cookie.value))
                  ELSE [err |-> RedisDown, val |-> ""]
           ok == cookie.present
       IN  /\ resp' = [kind |-> "orders", at |-> now, username |-> "", cookie |-> cookie, err |-> got.err,
                       status |-> IF ok THEN 0 ELSE 401, setCookie |-> NoCookie,
                       forwarded |-> ok, user |-> IF ok THEN got.val ELSE ""]
           /\ resolved' = IF ok THEN resolved \cup {cookie.value} ELSE resolved
    /\ UNCHANGED <<repoVars, concurrent, now, redis, logins>>

\* mutant: a resolved session gets a new time to live (a sliding session)
authMiddlewareSliding(cookie, fault) ==
    /\ fault \in {"none", "conn"}
    /\ ~cookie.present => fault = "none"
    /\ LET got == IF ~cookie.present THEN [err |-> "nil", val |-> ""]
                  ELSE IF fault = "none" THEN RedisGet(redis, SessionKey(cookie.value))
                  ELSE [err |-> RedisDown, val |-> ""]
           ok == cookie.present /\ got.err = "nil" /\ got.val # ""
       IN  /\ resp' = [kind |-> "orders", at |-> now, username |-> "", cookie |-> cookie, err |-> got.err,
                       status |-> IF ok THEN 0 ELSE 401, setCookie |-> NoCookie,
                       forwarded |-> ok, user |-> IF ok THEN got.val ELSE ""]
           /\ resolved' = IF ok THEN resolved \cup {cookie.value} ELSE resolved
           /\ redis' = IF ok THEN RedisSet(redis, SessionKey(cookie.value), got.val, Hour) ELSE redis
    /\ UNCHANGED <<repoVars, concurrent, now, logins>>

\* a request to /orders passes authMiddleware: next.ServeHTTP is called (forwarded)
\* with the user in the request context, or the request is answered 401
authMiddleware(cookie, fault) ==
    /\ fault \in {"none", "conn"}
    /\ ~cookie.present => fault = "none"
    /\ LET got == IF ~cookie.present THEN [err |-> "nil", val |-> ""]
                  ELSE IF fault = "none" THEN RedisGet(redis, SessionKey(cookie.value))
                  ELSE [err |-> RedisDown, val |-> ""]
           ok == cookie.present /\ got.err = "nil" /\ got.val # ""
       IN  /\ resp' = [kind |-> "orders", at |-> now, username |-> "", cookie |-> cookie, err |-> got.err,
                       status |-> IF ok THEN 0 ELSE 401, setCookie |-> NoCookie,
                       forwarded |-> ok, user |-> IF ok THEN got.val ELSE ""]
           /\ resolved' = IF ok THEN resolved \cup {cookie.value} ELSE resolved
    /\ UNCHANGED <<repoVars, concurrent, now, redis, logins>>

\* ------------------------------------------------------ the specifications
MemNext ==
    \/ \E w \in Workers, op \in Ops : \E o \in Args(op) : Call(w, op, o)
    \/ \E w \in Workers : MemLock(w)
    \/ \E w \in Workers : MemRLock(w)
    \/ \E w \in Workers : MemCreate(w)
    \/ \E w \in Workers : MemGet(w)
    \/ \E w \in Workers : MemList(w)
    \/ \E w \in Workers : MemUpdate(w)
    \/ \E w \in Workers : MemDelete(w)
    \/ \E w \in Workers : MemReturn(w)

StoreNext ==
    \/ \E w \in Workers : StoreLock(w)
    \/ \E w \in Workers : StoreCreate(w)
    \/ \E w \in Workers : StoreList(w)
    \/ \E w \in Workers : StoreReturn(w)

PgNext(F) ==
    \/ \E w \in Workers, o \in Args("Create"), f \in F : PgCreate(w, o, f)
    \/ \E w \in Workers, o \in Args("Get"), f \in F : PgGet(w, o, f)
    \/ \E w \in Workers, o \in Args("List"), f \in F : PgList(w, o, f)
    \/ \E w \in Workers, o \in Args("Update"), f \in F : PgUpdate(w, o, f)
    \/ \E w \in Workers, o \in Args("Delete"), f \in F : PgDelete(w, o, f)
    \/ \E w \in Workers : PgReturn(w)

\* the repository under concurrent callers, with the driver the program imports
Next == MemNext \/ StoreNext \/ PgNext(PqFaults)

Spec == Init /\ [][Next]_vars

\* the same with any database/sql driver
NextAnyDriver == MemNext \/ StoreNext \/ PgNext(AnyDriverFaults)

SpecAnyDriver == Init /\ [][NextAnyDriver]_vars

\* Concurrent creates: each worker calls Create once, with an id of its own, at any
\* time; once every Create has returned, a worker calls List.
IdOf(w) == FormatInt(w)

\* the Create of another id is in progress when w calls Create(o)
Overlapping(w, o) ==
    \E v \in Workers \ {w} : pc[v] # "idle" /\ call[v].op = "Create" /\ call[v].o.ID # o.ID

ConcCreate(w, o) ==
    /\ o.ID = IdOf(w) /\ lastWrite[o.ID].kind = "none"
    /\ Invoke(w, "Create", o)
    /\ concurrent' = (concurrent \/ Overlapping(w, o))

ConcList(w) ==
    /\ \A v \in Workers : pc[v] = "idle" /\ lastWrite[IdOf(v)].kind # "none"
    /\ Call(w, "List", ZeroOrder)

InitConc == Init /\ variant \in {"memory", "store"}

ConcNext ==
    \/ \E w \in Workers, o \in Args("Create") : ConcCreate(w, o)
    \/ \E w \in Workers : ConcList(w)
    \/ \E w \in Workers : MemLock(w)
    \/ \E w \in Workers : MemRLock(w)
    \/ \E w \in Workers : MemCreate(w)
    \/ \E w \in Workers : MemList(w)
    \/ \E w \in Workers : MemReturn(w)
    \/ StoreNext

SpecConc == InitConc /\ [][ConcNext]_vars

\* the login handler and the gate of the /orders routes
GateNext ==
    \/ Tick
    \/ \E t \in 0..MaxTime : RedisExpire(SessionKey(FormatInt(t)))
    \/ \E d \in BOOLEAN, u \in Usernames, f \in {"none", "conn"} : loginHandler(d, u, f)
    \/ \E c \in Cookies, f \in {"none", "conn"} : authMiddleware(c, f)

\* main wires the PostgreSQL repository
InitGate == Init /\ variant = "postgres"

SpecGate == InitGate /\ [][GateNext]_vars

\* =================================================================== claims
\* worker w's call of op takes effect in this step (its body runs, its statement
\* is applied) and its return value is set
Did(w, op) == pc[w] # "ret" /\ pc'[w] = "ret" /\ call'[w].op = op

\* the errors of a statement the backing store did not execute
StoreFaultErrs == {ErrDB, ErrCtx}

\* what is stored under id, as a set of at most one order
StoredAt(id) ==
    IF variant = "postgres" THEN {r \in table : r.ID = id}
    ELSE IF id \in DOMAIN orders THEN {orders[id]} ELSE {}

\* what a Get(id) that the store answers returns in the state a step leads to
GetNext(id) == IF variant = "postgres" THEN PgQueryRow(table', id, "none") ELSE MemLookup(orders', id)

\* the ids created and not deleted since
Live == {id \in IDs : lastWrite[id].kind \in {"create", "update"}}

\* the ids of the orders of a list
ListIDs(l) == {l[i].ID : i \in 1..Len(l)}

\* C1 as stated, for calls the backing store executes: in the variants that have
\* Get, once Create(e) has run (whatever it returned, short of a failure of the
\* backing store), a Get(e.id) that follows at once returns e.
C1_AnyCreateThenGet ==
    [][\A w \in Workers :
          (Did(w, "Create") /\ variant # "store" /\ ret'[w].err \notin StoreFaultErrs)
             => GetNext(call'[w].o.ID) = OrderRet(call'[w].o)]_vars

\* C1 amended: whenever the latest write of id that returned nil is a Create(e),
\* a Get(id) that the backing store answers returns nil and an order equal to e
\* in id, item and quantity.
C1_CreateThenGet ==
    [][\A w \in Workers :
          (Did(w, "Get") /\ lastWrite[call'[w].o.ID].kind = "create"
                         /\ ret'[w].err \notin StoreFaultErrs)
             => /\ ret'[w].err = ErrNil
                /\ ret'[w].o.ID = lastWrite[call'[w].o.ID].o.ID
                /\ ret'[w].o.Item = lastWrite[call'[w].o.ID].o.Item
                /\ ret'[w].o.Quantity = lastWrite[call'[w].o.ID].o.Quantity]_vars

\* a Get in the PostgreSQL variant has returned the order of the Create before it
C1_Witness ==
    \E w \in Workers :
       /\ variant = "postgres" /\ pc[w] = "ret" /\ call[w].op = "Get"
       /\ lastWrite[call[w].o.ID].kind = "create"
       /\ ret[w] = OrderRet(lastWrite[call[w].o.ID].o)

\* C2 as stated: Get, Update and Delete of an id that was never created, or whose
\* latest successful write is a Delete, return ErrNotFound.
C2_AbsentIsNotFound ==
    [][\A w \in Workers, op \in {"Get", "Update", "Delete"} :
          (Did(w, op) /\ lastWrite[call'[w].o.ID].kind \in {"none", "delete"})
             => ret'[w].err = ErrNotFound]_vars

\* C2 amended: such a call never succeeds; it returns ErrNotFound, or, in the
\* PostgreSQL variant only, the error of a statement the backing store failed.
C2_AbsentFails ==
    [][\A w \in Workers, op \in {"Get", "Update", "Delete"} :
          (Did(w, op) /\ lastWrite[call'[w].o.ID].kind \in {"none", "delete"})
             => \/ ret'[w].err = ErrNotFound
                \/ variant = "postgres" /\ ret'[w].err \in StoreFaultErrs]_vars

\* an Update of an id that was deleted before has returned ErrNotFound
C2_Witness ==
    \E w \in Workers :
       /\ pc[w] = "ret" /\ call[w].op = "Update"
       /\ lastWrite[call[w].o.ID].kind = "delete"
       /\ ret[w].err = ErrNotFound

\* C3 as stated: while the latest successful write of id is a Delete, every Get(id)
\* returns ErrNotFound and no List result holds an order with that id.
C3_DeletedIsNotFound ==
    [][\A w \in Workers :
          /\ (Did(w, "Get") /\ lastWrite[call'[w].o.ID].kind = "delete")
                => ret'[w].err = ErrNotFound
          /\ Did(w, "List")
                => \A id \in IDs : lastWrite[id].kind = "delete" => id \notin ListIDs(ret'[w].list)]_vars

\* C3 amended: such a Get never returns an order: it returns ErrNotFound, or, in
\* the PostgreSQL variant only, the error of a statement the backing store failed;
\* no List result holds an order with that id.
C3_DeletedIsGone ==
    [][\A w \in Workers :
          /\ (Did(w, "Get") /\ lastWrite[call'[w].o.ID].kind = "delete")
                => /\ ret'[w].o = ZeroOrder
                   /\ \/ ret'[w].err = ErrNotFound
                      \/ variant = "postgres" /\ ret'[w].err \in StoreFaultErrs
          /\ Did(w, "List")
                => \A id \in IDs : lastWrite[id].kind = "delete" => id \notin ListIDs(ret'[w].list)]_vars

\* a List has returned the other order after the Delete of an id
C3_Witness ==
    \E w \in Workers, id \in IDs :
       /\ pc[w] = "ret" /\ call[w].op = "List" /\ ret[w].err = ErrNil
       /\ lastWrite[id].kind = "delete"
       /\ ret[w].list # <<>> /\ id \notin ListIDs(ret[w].list)

\* C4: an Update(e), whether it returns nil or an error, leaves what is stored
\* under every id other than e.id as it was: still present, same item and quantity.
C4_UpdateFrame ==
    [][\A w \in Workers :
          Did(w, "Update") => \A id \in IDs \ {call'[w].o.ID} : StoredAt(id)' = StoredAt(id)]_vars

\* an Update has returned nil while an order with another id is stored
C4_Witness ==
    \E w \in Workers, id \in IDs :
       /\ pc[w] = "ret" /\ call[w].op = "Update" /\ ret[w].err = ErrNil
       /\ id # call[w].o.ID /\ StoredAt(id) # {}
       /\ StoredAt(call[w].o.ID) = {call[w].o}

\* C5: in the in-memory variants, a List result has as many orders as there are
\* live ids, and each live id exactly once.  List holds the lock until it returns,
\* so this holds of every List, and of one made when no other call is in progress.
C5_ListCardinality ==
    \A w \in Workers :
       (variant # "postgres" /\ pc[w] = "ret" /\ call[w].op = "List")
          => /\ ret[w].err = ErrNil
             /\ Len(ret[w].list) = Cardinality(Live)
             /\ \A id \in Live : Cardinality({i \in 1..Len(ret[w].list) : ret[w].list[i].ID = id}) = 1

\* a List made at a quiescent point has returned the one live order of three
\* successful writes (two creates, one delete)
C5_Witness ==
    \E w \in Workers :
       /\ variant = "memory" /\ pc[w] = "ret" /\ call[w].op = "List"
       /\ \A v \in Workers \ {w} : pc[v] = "idle"
       /\ Len(ret[w].list) = 1 /\ Cardinality(Live) = 1
       /\ \E id \in IDs : lastWrite[id].kind = "delete"

\* C6: in the in-memory variants, Create calls of pairwise different ids made
\* concurrently all return nil, and a List issued after all of them have returned
\* returns nil and the orders of exactly those ids.
C6_ConcurrentCreates ==
    \A w \in Workers :
       /\ (pc[w] = "ret" /\ call[w].op = "Create") => ret[w].err = ErrNil
       /\ (pc[w] = "ret" /\ call[w].op = "List")
             => /\ ret[w].err = ErrNil
                /\ ListIDs(ret[w].list) = {IdOf(v) : v \in Workers}
                /\ Len(ret[w].list) = Cardinality(Workers)

\* the List after two Create calls that were in progress at once has returned
C6_Witness ==
    \E w \in Workers :
       /\ concurrent /\ pc[w] = "ret" /\ call[w].op = "List"
       /\ ListIDs(ret[w].list) = {"1", "2"}

\* the logins that were answered with session id sid
LoginsOf(sid) == {l \in logins : l.sid = sid}

\* C7: the gate calls the downstream handler only for a request that carried a
\* session cookie whose Redis lookup returned no error and a user, which is the
\* user of a login that issued the cookie's value less than the TTL before; a
\* request with no cookie, or whose lookup failed, is answered 401 and not forwarded.
C7_GateForwardsOnlyResolved ==
    resp.kind = "orders"
       => /\ resp.forwarded
                => /\ resp.cookie.present /\ resp.err = "nil" /\ resp.user # ""
                   /\ \E l \in LoginsOf(resp.cookie.value) :
                         l.user = resp.user /\ resp.at < l.at + Hour
          /\ (~resp.cookie.present \/ resp.err # "nil")
                => ~resp.forwarded /\ resp.status = 401

\* a request with the cookie of a login has been forwarded with its user
C7_Witness ==
    /\ resp.kind = "orders" /\ resp.forwarded /\ resp.user = "alice"
    /\ resp.cookie = [present |-> TRUE, value |-> "0"]

\* C8: a request whose cookie value was issued by logins that all lie the TTL or
\* more back is answered 401 and not forwarded, with the outcome of a value that
\* was never issued, also when the same value was resolved before.
C8_ExpiredIsRejected ==
    (/\ resp.kind = "orders" /\ resp.cookie.present
     /\ LoginsOf(resp.cookie.value) # {}
     /\ \A l \in LoginsOf(resp.cookie.value) : resp.at >= l.at + Hour)
       => /\ ~resp.forwarded /\ resp.status = 401 /\ resp.user = ""
          /\ resp.err \in {RedisNil, RedisDown}

\* a session that was resolved before its expiry has been rejected after it,
\* Redis answering
C8_Witness ==
    /\ resp.kind = "orders" /\ resp.cookie.present
    /\ resp.cookie.value \in resolved
    /\ \A l \in LoginsOf(resp.cookie.value) : resp.at >= l.at + Hour
    /\ resp.status = 401 /\ resp.err = RedisNil

\* C9: a request whose cookie value no login answered 200 has ever issued is
\* answered 401 and not forwarded.
C9_NeverIssuedIsRejected ==
    (resp.kind = "orders" /\ resp.cookie.present /\ LoginsOf(resp.cookie.value) = {})
       => ~resp.forwarded /\ resp.status = 401 /\ resp.user = ""

\* a value the clock can produce, but that no login issued, has been rejected
\* while another session is live
C9_Witness ==
    /\ resp.kind = "orders" /\ resp.cookie = [present |-> TRUE, value |-> "1"]
    /\ LoginsOf("1") = {} /\ LoginsOf("0") # {} /\ resp.at < Hour
    /\ resp.err = RedisNil /\ resp.status = 401

\* C10 as stated, for lookups Redis answers: a request with the session id S of a
\* login of u, served before that login's TTL has elapsed, is forwarded with user u.
C10_ResolveYieldsLoginUser ==
    (resp.kind = "orders" /\ resp.cookie.present /\ resp.err # RedisDown)
       => \A l \in LoginsOf(resp.cookie.value) :
             resp.at < l.at + Hour => resp.forwarded /\ resp.user = l.user

\* C11 as stated: any two logins answered 200 received different session ids, so
\* the session record of a login is never written by another login.
C11_SessionIdsFresh ==
    \A l1, l2 \in logins : l1.sid = l2.sid => l1 = l2

\* ---------------------------------------------- the two variants side by side
\* The bodies of the repository methods as functions of the store: the set of
\* [store, ret] a call can lead to (List enumerates in an unspecified order).
MemOutcomes(m, op, o) ==
    CASE op = "Create" -> {[store |-> MapSet(m, o.ID, o), ret |-> OkRet]}
      [] op = "Get" -> {[store |-> m, ret |-> MemLookup(m, o.ID)]}
      [] op = "List" -> {[store |-> m, ret |-> [err |-> ErrNil, o |-> ZeroOrder, isNil |-> FALSE, list |-> out]] :
                            out \in MapValues(m)}
      [] op = "Update" -> IF o.ID \notin DOMAIN m
                          THEN {[store |-> m, ret |-> ErrRet(ErrNotFound)]}
                          ELSE {[store |-> MapSet(m, o.ID, o), ret |-> OkRet]}
      [] op = "Delete" -> IF o.ID \notin DOMAIN m
                          THEN {[store |-> m, ret |-> ErrRet(ErrNotFound)]}
                          ELSE {[store |-> MapDelete(m, o.ID), ret |-> OkRet]}

\* the statements of the PostgreSQL variant, the backing store executing each
PgOutcomes(t, op, o) ==
    CASE op = "Create" -> IF HasRow(t, o.ID)
                          THEN {[store |-> t, ret |-> ErrRet(ErrUnique)]}
                          ELSE {[store |-> t \cup {o}, ret |-> OkRet]}
      [] op = "Get" -> {[store |-> t, ret |-> PgQueryRow(t, o.ID, "none")]}
      [] op = "List" -> {[store |-> t, ret |-> [err |-> ErrNil, o |-> ZeroOrder, isNil |-> t = {}, list |-> rows]] :
                            rows \in Rows(t)}
      [] op = "Update" ->
            LET n == RowsAffected(Cardinality({r \in t : r.ID = o.ID}), "none")
            IN  {[store |-> {IF r.ID = o.ID THEN o ELSE r : r \in t},
                  ret |-> ErrRet(IF n = 0 THEN ErrNotFound ELSE ErrNil)]}
      [] op = "Delete" ->
            LET n == RowsAffected(Cardinality({r \in t : r.ID = o.ID}), "none")
            IN  {[store |-> {r \in t : r.ID # o.ID},
                  ret |-> ErrRet(IF n = 0 THEN ErrNotFound ELSE ErrNil)]}

\* the in-memory repository
InMemory == 1
\* the PostgreSQL repository
Durable == 2

\* One call, with the same arguments, made on a repository of each variant, both
\* empty to begin with: ret[InMemory] and ret[Durable] are what the two return.
Both(op, o) ==
    /\ variant = "both" /\ o \in Args(op)
    /\ \E a \in MemOutcomes(orders, op, o), b \in PgOutcomes(table, op, o) :
          /\ orders' = a.store
          /\ table' = b.store
          /\ ret' = [w \in Workers |-> IF w = InMemory THEN a.ret ELSE b.ret]
    /\ call' = [w \in Workers |-> [op |-> op, o |-> o]]
    /\ UNCHANGED <<variant, mu, pc, lastWrite, gateVars, concurrent>>

InitBoth ==
    /\ variant = "both"
    /\ orders = [x \in {} |-> ZeroOrder]
    /\ mu = [writer |-> 0, readers |-> {}]
    /\ table = {}
    /\ pc = [w \in Workers |-> "idle"]
    /\ call = [w \in Workers |-> NoCall]
    /\ ret = [w \in Workers |-> NoRet]
    /\ lastWrite = [id \in IDs |-> NoWrite]
    /\ now = 0
    /\ redis = [k \in {} |-> [val |-> "", exp |-> 0]]
    /\ resp = NoResp
    /\ logins = {}
    /\ resolved = {}
    /\ concurrent = FALSE

BothNext == \E op \in Ops : \E o \in Args(op) : Both(op, o)

SpecBoth == InitBoth /\ [][BothNext]_vars

\* the entities of a list, and those the in-memory map holds
ListSet(l) == {l[i] : i \in 1..Len(l)}
MapRange(m) == {m[k] : k \in DOMAIN m}

\* C12 as stated: after every call made on both variants, the two returned the same
\* error, the same order and lists of the same entities, and hold the same entities.
C12_VariantsAgree ==
    variant = "both"
       => /\ ret[InMemory].err = ret[Durable].err
          /\ ret[InMemory].o = ret[Durable].o
          /\ ListSet(ret[InMemory].list) = ListSet(ret[Durable].list)
          /\ MapRange(orders) = table

\* ------------------------------------------------------ the /orders handlers
\* the orders a client posts: with an id of its own, or with a blank id
Blank(o) == [o EXCEPT !.ID = ""]
Bodies == Order \cup {Blank(o) : o \in Order}

OrderHandlers == {"createOrder", "listOrders", "getOrder", "updateOrder", "deleteOrder"}

\* the call a handler makes on repo, the wired order.Repository: the in-memory
\* variant runs its body, whatever the state of the context it is passed (no
\* method of it reads ctx); the PostgreSQL variant executes its statement, unless
\* the connection fails ("conn") or the context is done ("ctx")
RepoOutcomes(op, o, fault) ==
    IF variant = "memory" THEN {[store |-> a.store, ret |-> a.ret] : a \in MemOutcomes(orders, op, o)}
    ELSE IF fault # "none" THEN {[store |-> table, ret |-> ErrRet(ErrOf(fault))]}
    ELSE PgOutcomes(table, op, o)

\* mutant: every handler answers 500 to any error (the ErrNotFound branch removed)
StatusOfNo404(kind, err) ==
    IF err # ErrNil THEN 500
    ELSE IF kind = "createOrder" THEN 201
    ELSE IF kind = "deleteOrder" THEN 204
    ELSE 200

\* the status a handler answers with for the error its repository call returned
StatusOf(kind, err) ==
    IF err = ErrNotFound /\ kind \in {"getOrder", "updateOrder", "deleteOrder"} THEN 404
    ELSE IF err # ErrNil THEN 500
    ELSE IF kind = "createOrder" THEN 201
    ELSE IF kind = "deleteOrder" THEN 204
    ELSE 200

\* what is stored under id by the wired variant
StoredIn(id) ==
    IF variant = "memory" THEN (IF id \in DOMAIN orders THEN {orders[id]} ELSE {})
    ELSE {r \in table : r.ID = id}

\* The request the gate forwarded is served: the handler calls op with o on the
\* repository and answers.  In the response, path is the id of the request path
\* (empty on /orders), body is the order the client sent, o
\* the order passed to the repository, before what was stored under o.ID when the
\* call was made, ctxDone whether the request's context was done by then (the
\* client gone), err what the call returned, out the order written back.
Serve(kind, op, path, body, o, fault) ==
    /\ resp.kind = "orders" /\ resp.forwarded
    /\ variant \in {"memory", "postgres"}
    /\ fault \in ExecFaults /\ (variant = "memory" => fault # "conn")
    /\ \E x \in RepoOutcomes(op, o, fault) :
          /\ IF variant = "memory"
             THEN orders' = x.store /\ UNCHANGED table
             ELSE table' = x.store /\ UNCHANGED orders
          /\ resp' = [kind |-> kind, at |-> now, path |-> path, body |-> body, o |-> o,
                      before |-> StoredIn(o.ID),
                      ctxDone |-> fault = "ctx",
                      err |-> x.ret.err, status |-> StatusOf(kind, x.ret.err),
                      out |-> IF x.ret.err # ErrNil THEN ZeroOrder
                              ELSE IF op = "Get" THEN x.ret.o ELSE o,
                      isNil |-> x.ret.isNil, list |-> x.ret.list]
    /\ UNCHANGED <<variant, mu, pc, call, ret, lastWrite, now, redis, logins, resolved, concurrent>>

\* a request whose body does not decode is answered 400; the repository is not called
BadRequest(kind) ==
    /\ resp.kind = "orders" /\ resp.forwarded
    /\ variant \in {"memory", "postgres"}
    /\ kind \in {"createOrder", "updateOrder"}
    /\ resp' = [kind |-> kind, at |-> now, path |-> "", body |-> ZeroOrder, o |-> ZeroOrder, before |-> {},
                ctxDone |-> FALSE, err |-> "decode", status |-> 400, out |-> ZeroOrder, isNil |-> TRUE, list |-> <<>>]
    /\ UNCHANGED <<repoVars, now, redis, logins, resolved, concurrent>>

\* POST /orders: a blank id is replaced by the clock reading in decimal
createOrderHandler(body, fault) ==
    /\ body \in Bodies
    /\ LET o == IF body.ID = "" THEN [body EXCEPT !.ID = FormatInt(now)] ELSE body
       IN  Serve("createOrder", "Create", "", body, o, fault)

\* GET /orders
listOrdersHandler(fault) ==
    /\ fault \in ExecFaults
    /\ Serve("listOrders", "List", "", ZeroOrder, ZeroOrder, fault)

\* GET /orders/{id}
getOrderHandler(id, fault) ==
    /\ fault \in ExecFaults
    /\ Serve("getOrder", "Get", id, ZeroOrder, ArgOf(id), fault)

\* mutant: the assignment o.ID = id left out
updateOrderHandlerBodyID(id, body, fault) ==
    /\ body \in Bodies
    /\ Serve("updateOrder", "Update", id, body, body, fault)

\* PUT /orders/{id}: the id of the path replaces the id of the body
updateOrderHandler(id, body, fault) ==
    /\ body \in Bodies
    /\ Serve("updateOrder", "Update", id, body, [body EXCEPT !.ID = id], fault)

\* DELETE /orders/{id}
deleteOrderHandler(id, fault) ==
    /\ fault \in ExecFaults
    /\ Serve("deleteOrder", "Delete", id, ZeroOrder, ArgOf(id), fault)

\* the ids of a request path: those the clients choose and those the server assigns
PathIDs == IDs \cup {FormatInt(t) : t \in 0..MaxTime}

\* the API: a client logs in, its requests to /orders carry the cookie of the
\* login made at instant 0, pass the gate while that session lives, and are served
HTTPNext ==
    \/ Tick
    \/ loginHandler(TRUE, "alice", "none")
    \/ authMiddleware([present |-> TRUE, value |-> FormatInt(0)], "none")
    \/ \E kind \in OrderHandlers : BadRequest(kind)
    \/ \E body \in Bodies, f \in ExecFaults : createOrderHandler(body, f)
    \/ \E f \in ExecFaults : listOrdersHandler(f)
    \/ \E id \in PathIDs, f \in ExecFaults : getOrderHandler(id, f)
    \/ \E id \in PathIDs, body \in Bodies, f \in ExecFaults : updateOrderHandler(id, body, f)
    \/ \E id \in PathIDs, f \in ExecFaults : deleteOrderHandler(id, f)

InitHTTP == Init /\ variant \in {"memory", "postgres"}

SpecHTTP == InitHTTP /\ [][HTTPNext]_vars

\* C13 as stated, for creates the backing store executes: a create request with a
\* blank id is answered 201 with a non-empty id under which nothing was stored
\* before, and the submitted item and quantity are then stored under that id.
C13_BlankIdIsUnique ==
    (/\ resp.kind = "createOrder" /\ resp.status # 400
     /\ resp.body.ID = "" /\ resp.err \notin StoreFaultErrs)
       => /\ resp.status = 201
          /\ resp.o.ID # ""
          /\ resp.before = {}
          /\ StoredIn(resp.o.ID) = {[resp.body EXCEPT !.ID = resp.o.ID]}

\* C14 as stated: a repository call made with a context that is already done
\* returns the context's error and leaves what is stored under its id as it was.
C14_DoneContextAborts ==
    (resp.kind \in OrderHandlers /\ resp.status # 400 /\ resp.ctxDone)
       => /\ resp.err = ErrCtx
          /\ StoredIn(resp.o.ID) = resp.before

\* C15 as stated: in the PostgreSQL variant a Get, Update or Delete returns
\* ErrNotFound only if the table held no row with the id when the statement ran.
C15_NotFoundMeansNoRow ==
    [][\A w \in Workers, op \in {"Get", "Update", "Delete"} :
          (Did(w, op) /\ variant = "postgres" /\ ret'[w].err = ErrNotFound)
             => ~HasRow(table, call'[w].o.ID)]_vars

\* C16 as stated: a List that returns nil as error and no order returns an empty
\* slice that is not nil.
C16_EmptyListIsPresent ==
    \A w \in Workers :
       (pc[w] = "ret" /\ call[w].op = "List" /\ ret[w].err = ErrNil /\ Len(ret[w].list) = 0)
          => ~ret[w].isNil

\* C17: a request to /orders that passed the gate and whose handler called the
\* repository is answered 404 if the call returned ErrNotFound, 500 if it
\* returned any other error, and, if it returned nil, 201 by createOrder, 204 by
\* deleteOrder and 200 by getOrder, listOrders and updateOrder.
C17_StatusOfOutcome ==
    (resp.kind \in OrderHandlers /\ resp.err # "decode")
       => /\ resp.err = ErrNotFound => resp.status = 404
          /\ resp.err \notin {ErrNil, ErrNotFound} => resp.status = 500
          /\ resp.err = ErrNil
                => resp.status = (CASE resp.kind = "createOrder" -> 201
                                    [] resp.kind = "deleteOrder" -> 204
                                    [] OTHER -> 200)

\* with the PostgreSQL repository wired, an update of an id that is not stored
\* has been answered 404 while another order is stored
C17_Witness ==
    /\ variant = "postgres" /\ resp.kind = "updateOrder"
    /\ resp.err = ErrNotFound /\ resp.status = 404
    /\ table # {} /\ resp.before = {}

\* C18 as stated: a request whose session lookup failed with an error other than
\* redis.Nil is answered with a 5xx status, not with the 401 of an absent session.
C18_LookupFailureIsStoreError ==
    (resp.kind = "orders" /\ resp.cookie.present /\ resp.err \notin {"nil", RedisNil})
       => resp.status >= 500 /\ resp.status # 401

\* worker w is inside the critical section of its call on the in-memory
\* repository: it holds the lock, from Lock / RLock to the deferred unlock
InCS(w) == variant = "memory" /\ pc[w] \in {"cs", "ret"}

\* C19: in the in-memory repository, while a Create, Update or Delete is inside
\* its critical section no other call is inside its own.  (That two of Get and
\* List can be inside theirs at once is what the witness reaches.)
C19_WritersExclude ==
    \A w, v \in Workers :
       (w # v /\ InCS(w) /\ call[w].op \in WriteOps) => ~InCS(v)

\* a Get and a List are inside their critical sections at the same time, the
\* store holding an order
C19_Witness ==
    \E w, v \in Workers :
       /\ w # v /\ InCS(w) /\ InCS(v)
       /\ call[w].op = "Get" /\ call[v].op = "List"
       /\ mu.readers = {w, v} /\ mu.writer = 0
       /\ DOMAIN orders # {}

\* ------------------------------------------- writes racing on the stored orders
\* r.orders[o.ID] = o is not one store: the map makes the slot of the key (zero
\* for a new key) and the order is copied into it field by field, in an order
\* the compiler chooses.  MemStoreField is one of these stores, made inside the
\* critical section of a Create or of an Update that found the key; MemCreate
\* and MemUpdate then complete the assignment.
Fields == {"ID", "Item", "Quantity"}

MemStoreField(w, f) ==
    /\ variant = "memory" /\ pc[w] = "cs" /\ call[w].op \in {"Create", "Update"}
    /\ call[w].op = "Update" => call[w].o.ID \in DOMAIN orders
    /\ f \in Fields
    /\ LET id == call[w].o.ID
           slot == IF id \in DOMAIN orders THEN orders[id] ELSE ZeroOrder
       IN  orders' = MapSet(orders, id, [slot EXCEPT ![f] = call[w].o[f]])
    /\ UNCHANGED <<variant, mu, table, pc, call, ret, lastWrite, gateVars, concurrent>>

InitRace == Init /\ variant \in {"memory", "postgres"}

RaceNext ==
    \/ MemNext
    \/ \E w \in Workers, f \in Fields : MemStoreField(w, f)
    \/ PgNext(PqFaults)

SpecRace == InitRace /\ [][RaceNext]_vars

\* what the writes of id that returned nil leave under id when they are applied
\* one after the other, in the order in which they took effect
Serial(id) == IF lastWrite[id].kind \in {"create", "update"} THEN {lastWrite[id].o} ELSE {}

\* a write is inside its critical section and has not completed its assignment
Writing == \E w \in Workers : variant = "memory" /\ pc[w] = "cs" /\ call[w].op \in WriteOps

\* C20: with calls of all five operations made concurrently, on the same id or
\* not, every call that the backing store executes returns what it returns in
\* the serial order in which the calls took effect (a Get the whole order of the
\* latest such write or ErrNotFound, a List the whole orders of the latest writes,
\* an Update or Delete ErrNotFound exactly for an id that order leaves absent, a
\* Create nil or, in the PostgreSQL variant, the unique violation exactly for an
\* id it leaves stored), and whenever no write is in progress each id is absent
\* or holds the item and quantity of that one write.
C20_WritesSerialize ==
    [][/\ \A w \in Workers :
             LET id == call'[w].o.ID
                 err == ret'[w].err
             IN  /\ (Did(w, "Get") /\ err \notin StoreFaultErrs)
                       => ret'[w] = IF Serial(id) = {} THEN ErrRet(ErrNotFound)
                                    ELSE OrderRet(lastWrite[id].o)
                 /\ (Did(w, "List") /\ err = ErrNil)
                       => /\ ListSet(ret'[w].list) = UNION {Serial(i) : i \in IDs}
                          /\ Len(ret'[w].list) = Cardinality({i \in IDs : Serial(i) # {}})
                 /\ (\E op \in {"Update", "Delete"} : Did(w, op) /\ err \notin StoreFaultErrs)
                       => /\ err \in {ErrNil, ErrNotFound}
                          /\ err = ErrNotFound <=> Serial(id) = {}
                 /\ (Did(w, "Create") /\ err \notin StoreFaultErrs)
                       => IF variant = "postgres" /\ Serial(id) # {} THEN err = ErrUnique
                          ELSE err = ErrNil
       /\ ~Writing' => \A i \in IDs : StoredAt(i)' = Serial(i)']_vars

\* in the in-memory variant an Update is part-way through its assignment (what is
\* stored under its id mixes two writes) while a Delete of the same id, called
\* concurrently, waits for the lock
C20_Witness ==
    \E w, v \in Workers :
       /\ w # v /\ variant = "memory"
       /\ pc[w] = "cs" /\ call[w].op = "Update"
       /\ call[w].o.ID \in DOMAIN orders /\ orders[call[w].o.ID] \notin Order
       /\ lastWrite[call[w].o.ID].kind = "update"
       /\ pc[v] = "wait" /\ call[v].op = "Delete" /\ call[v].o.ID = call[w].o.ID

\* ------------------------------------------------- the in-memory repository, fairly
\* A goroutine that can take a step takes it (weak fairness of the bodies and of
\* the returns).  sync.RWMutex does not starve a waiter: a blocked Lock holds off
\* later RLock calls until the writer has had the lock, and Unlock admits the
\* readers that were blocked before another writer gets it; a goroutine that can
\* take the lock again and again does take it (strong fairness of Lock and RLock).
InitLive == Init /\ variant = "memory"

\* the lock call of w's operation, and the steps w takes while it has the lock
Acquire(w) == MemLock(w) \/ MemRLock(w)
Proceed(w) ==
    \/ MemCreate(w) \/ MemGet(w) \/ MemList(w) \/ MemUpdate(w) \/ MemDelete(w)
    \/ MemReturn(w)

LiveFairness == \A w \in Workers : SF_vars(Acquire(w)) /\ WF_vars(Proceed(w))

SpecLive == InitLive /\ [][MemNext]_vars /\ LiveFairness

\* worker w holds the lock of the in-memory repository
Holds(w) == mu.writer = w \/ w \in mu.readers

\* C21: in the in-memory repository, under fair scheduling, every call that was
\* started gets the lock, and every call that has the lock returns with the lock
\* released, on the ErrNotFound paths too; a worker that is not in a call holds
\* no lock.
C21_EveryCallReturns ==
    /\ [](\A w \in Workers : pc[w] \in {"idle", "wait"} => ~Holds(w))
    /\ \A w \in Workers :
          /\ (pc[w] = "wait") ~> (pc[w] = "cs" /\ Holds(w))
          /\ (pc[w] = "cs") ~> (pc[w] = "ret")
          /\ (pc[w] = "ret") ~> (pc[w] = "idle" /\ ~Holds(w))

\* an Update holds the write lock on its ErrNotFound path while the other worker
\* waits for the lock
C21_Witness ==
    \E w, v \in Workers :
       /\ variant = "memory" /\ w # v
       /\ pc[w] = "ret" /\ call[w].op = "Update" /\ ret[w].err = ErrNotFound /\ mu.writer = w
       /\ pc[v] = "wait"

\* C22: in both variants, once an Update(e) has returned nil, a Get(e.id) that
\* follows at once and that the backing store answers returns nil and exactly e:
\* id, item and quantity are those of e.
C22_UpdateReplaces ==
    [][\A w \in Workers :
          (Did(w, "Update") /\ ret'[w].err = ErrNil)
             => GetNext(call'[w].o.ID) = OrderRet(call'[w].o)]_vars

\* in the in-memory variant an Update with the largest quantity has returned nil
\* and its order is what is stored under its id
C22_Witness ==
    \E w \in Workers :
       /\ variant = "memory" /\ pc[w] = "ret" /\ call[w].op = "Update" /\ ret[w].err = ErrNil
       /\ call[w].o.Quantity = MaxQuantity
       /\ StoredAt(call[w].o.ID) = {call[w].o}

\* the ids under which the wired variant stores an order
StoredIDs == IF variant = "postgres" THEN {r.ID : r \in table} ELSE DOMAIN orders

\* C23: a step changes the set of stored ids only if it is the step in which a
\* Create takes effect, which adds the id of the Create, or the one in which a
\* Delete takes effect, which removes the id of the Delete (no Get, List or Update
\* changes the set); and an id whose latest successful write is a Delete is not
\* stored, whatever Update was called concurrently.
C23_OnlyCreateAndDeleteChangeIDs ==
    [][/\ StoredIDs' # StoredIDs
          => \E w \in Workers :
                \/ Did(w, "Create") /\ StoredIDs' = StoredIDs \cup {call'[w].o.ID}
                \/ Did(w, "Delete") /\ StoredIDs' = StoredIDs \ {call'[w].o.ID}
       /\ \A id \in IDs : lastWrite'[id].kind = "delete" => id \notin StoredIDs']_vars

\* in the PostgreSQL variant an Update and a Delete of the same id were in progress
\* at once: the Delete has returned nil, the Update ErrNotFound, and the id is not
\* stored
C23_Witness ==
    \E w, v \in Workers :
       /\ variant = "postgres" /\ w # v
       /\ pc[w] = "ret" /\ call[w].op = "Update" /\ ret[w].err = ErrNotFound
       /\ pc[v] = "ret" /\ call[v].op = "Delete" /\ ret[v].err = ErrNil
       /\ call[v].o.ID = call[w].o.ID
       /\ lastWrite[call[w].o.ID].kind = "delete"
       /\ call[w].o.ID \notin StoredIDs /\ StoredIDs # {}

\* C24 as stated: the step in which an Update or Delete returns ErrNotFound leaves
\* the map and the table as they were.
C24_NotFoundChangesNothing ==
    [][\A w \in Workers, op \in {"Update", "Delete"} :
          (Did(w, op) /\ ret'[w].err = ErrNotFound) => (orders' = orders /\ table' = table)]_vars

\* C25: when updateOrderHandler serves PUT /orders/{id} with a body that decodes,
\* whatever id the body carries, the Update is called with the id of the path,
\* what is stored under every other id stays as it was, and an update answered
\* 200 writes back the order with the id of the path.
C25_UpdateTargetsPathId ==
    [][(resp.kind = "orders" /\ resp'.kind = "updateOrder" /\ resp'.err # "decode")
          => /\ resp'.o.ID = resp'.path
             /\ resp'.o.Item = resp'.body.Item /\ resp'.o.Quantity = resp'.body.Quantity
             /\ \A id \in PathIDs \ {resp'.path} : StoredIn(id)' = StoredIn(id)
             /\ resp'.err = ErrNil
                   => /\ resp'.status = 200 /\ resp'.out.ID = resp'.path
                      /\ \A id \in PathIDs : id = resp'.path => StoredIn(id)' = {resp'.out}]_vars

\* an update whose body carries the id of another stored order has been answered
\* 200 with the id of the path, the other order still stored
C25_Witness ==
    /\ resp.kind = "updateOrder" /\ resp.err = ErrNil /\ resp.status = 200
    /\ resp.body.ID # resp.path /\ resp.body.ID # ""
    /\ StoredIn(resp.body.ID) # {} /\ StoredIn(resp.body.ID) # {resp.body}
    /\ resp.out.ID = resp.path /\ StoredIn(resp.path) = {resp.out}

\* C26: in the in-memory repository and in the Store, every entry of the map is
\* stored under the id of its order, and the orders of a List result, while the
\* List has not returned, have the ids of keys of the map.
C26_KeyIsOrderID ==
    variant \in {"memory", "store"}
       => /\ \A k \in DOMAIN orders : orders[k].ID = k
          /\ \A w \in Workers :
                (pc[w] = "ret" /\ call[w].op = "List") => ListIDs(ret[w].list) \subseteq DOMAIN orders

\* in the in-memory variant a List has returned two orders after an Update, each
\* stored under its own id
C26_Witness ==
    \E w \in Workers :
       /\ variant = "memory" /\ pc[w] = "ret" /\ call[w].op = "List"
       /\ Len(ret[w].list) = 2 /\ ListIDs(ret[w].list) = DOMAIN orders
       /\ \E id \in IDs : lastWrite[id].kind = "update"
====
